---- MODULE Spec2Model ----
(***************************************************************************)
(* RecognizerRegistryProvider (presidio_analyzer/recognizer_registry_      *)
(* provider.py): resolution of the registry configuration and assembly of  *)
(* the recognizer registry.                                                *)
(*                                                                         *)
(* Python values are modelled so that the shape tests of the code          *)
(* (isinstance(x, str), "k" in d, truthiness) are computable:              *)
(*   None           the record [none |-> TRUE]                             *)
(*   a str  s       Str(s)   = [str  |-> s]                                *)
(*   a list xs      List(xs) = [list |-> xs]                               *)
(*   a dict         a function from its keys (strings) to its values       *)
(***************************************************************************)
EXTENDS Integers, Sequences, FiniteSets, TLC

(***************************************************************************)
(* Bounds of the model.                                                    *)
(***************************************************************************)
MaxLangs == 2          \* longest registry-wide supported_languages list
MaxRecognizers == 2    \* longest recognizers list of an inline configuration
MaxCalls == 2          \* create_recognizer_registry calls per provider
MaxScopes == 2         \* longest supported_languages list of one entry

(***************************************************************************)
(* Python values.                                                          *)
(***************************************************************************)
None == [none |-> TRUE]
Str(s) == [str |-> s]
List(xs) == [list |-> xs]
EmptyDict == [k \in {} |-> None]

IsStr(v) == DOMAIN v = {"str"}

\* bool(v) for the values the constructor's arguments range over
Truthy(v) ==
    IF v = None THEN FALSE
    ELSE IF IsStr(v) THEN v.str # ""
    ELSE DOMAIN v # {}

\* {k: v for k, v in d.items() if k not in ks}
Without(d, ks) == [k \in DOMAIN d \ ks |-> d[k]]

\* d.get(k, default)
Get(d, k, default) == IF k \in DOMAIN d THEN d[k] ELSE default

(***************************************************************************)
(* Language codes and registry-wide language lists.                        *)
(***************************************************************************)
AllLanguages == <<Str("en"), Str("de"), Str("es"), Str("he")>>

LanguageLists == {SubSeq(AllLanguages, 1, n) : n \in 0..MaxLangs}

(***************************************************************************)
(* Recognizer entries of a configuration: bare names and mappings.         *)
(***************************************************************************)
ZipContext == List(<<"zip", "code">>)

ScopedLanguages ==
    List(<<[language |-> Str("de"), context |-> List(<<"plz">>)],
           [language |-> Str("en"), context |-> None]>>)

PlainLanguages == List(<<Str("es"), Str("en")>>)

CustomFields ==
    [name |-> "Zip", supported_entity |-> "ZIP", patterns |-> "zip code (weak)"]

RecognizerEntries ==
    { Str("CreditCardRecognizer"),
      Str("NoSuchRecognizer"),
      [name |-> "CreditCardRecognizer", type |-> "predefined",
       supported_language |-> Str("de")],
      [name |-> "CreditCardRecognizer", type |-> "predefined",
       enabled |-> FALSE, supported_languages |-> List(<<>>)],
      [name |-> "NoSuchRecognizer", type |-> "predefined",
       enabled |-> FALSE, supported_languages |-> PlainLanguages],
      [name |-> "SpacyRecognizer", type |-> "predefined", enabled |-> TRUE,
       context |-> ZipContext, supported_languages |-> ScopedLanguages],
      CustomFields @@ [context |-> ZipContext],
      CustomFields @@ [type |-> "custom", supported_language |-> Str("he"),
                       context |-> ZipContext],
      CustomFields @@ [enabled |-> FALSE, supported_languages |-> List(<<>>)],
      CustomFields @@ [type |-> "custom", context |-> ZipContext,
                       supported_languages |-> PlainLanguages],
      CustomFields @@ [type |-> "other"],
      [name |-> "SpacyRecognizer", type |-> "predefined",
       context |-> ZipContext],
      CustomFields @@ [type |-> "custom", enabled |-> TRUE,
                       supported_languages |-> ScopedLanguages] }

RecognizerLists ==
    UNION {[1..n -> RecognizerEntries] : n \in 0..MaxRecognizers}

(***************************************************************************)
(* Configurations: dicts over the three top-level keys, each optional.     *)
(***************************************************************************)
Fields == {"supported_languages", "recognizers", "global_regex_flags"}

IGNORECASE == 2
MULTILINE == 8
DOTALL == 16

\* re.DOTALL | re.MULTILINE | re.IGNORECASE (disjoint bits)
DefaultFlags == DOTALL + MULTILINE + IGNORECASE

default_values ==
    [supported_languages |-> List(<<Str("en")>>),
     recognizers |-> List(<<>>),
     global_regex_flags |-> DefaultFlags]

InlineConfigurations ==
    { (sl @@ rs) @@ fl :
        sl \in {EmptyDict} \cup
               {[supported_languages |-> List(l)] : l \in LanguageLists},
        rs \in {EmptyDict} \cup
               {[recognizers |-> List(r)] : r \in RecognizerLists},
        fl \in {EmptyDict, [global_regex_flags |-> IGNORECASE]} }

(***************************************************************************)
(* The file system the provider reads from.  A path leads to no file, to a *)
(* file that is not YAML, to a YAML document that is not a mapping, or to  *)
(* a YAML mapping.                                                         *)
(***************************************************************************)
DefaultConfPath == Str("conf/default_recognizers.yaml")

DefaultDocument ==
    [supported_languages |-> List(<<Str("en")>>),
     recognizers |->
        List(<<Str("CreditCardRecognizer"),
               [name |-> "SpacyRecognizer", type |-> "predefined",
                supported_languages |-> List(<<Str("en")>>)]>>),
     global_regex_flags |-> DefaultFlags]

UserPaths ==
    {Str("missing.yaml"), Str("broken.yaml"), Str("empty.yaml"),
     Str("languages.yaml"), Str("custom.yaml"), Str("full.yaml")}

FileSystem(path) ==
    CASE path = DefaultConfPath ->
            [kind |-> "mapping", doc |-> DefaultDocument]
      [] path = Str("broken.yaml") -> [kind |-> "malformed", doc |-> EmptyDict]
      [] path = Str("empty.yaml") -> [kind |-> "scalar", doc |-> EmptyDict]
      [] path = Str("languages.yaml") ->
            [kind |-> "mapping",
             doc |-> [supported_languages |-> List(<<Str("de"), Str("en")>>)]]
      [] path = Str("custom.yaml") ->
            [kind |-> "mapping",
             doc |-> [recognizers |->
                         List(<<CustomFields @@ [context |-> ZipContext]>>),
                      global_regex_flags |-> IGNORECASE]]
      [] path = Str("full.yaml") ->
            [kind |-> "mapping",
             doc |-> [supported_languages |-> List(<<Str("de")>>),
                      recognizers |-> List(<<Str("CreditCardRecognizer")>>),
                      global_regex_flags |-> IGNORECASE]]
      [] OTHER -> [kind |-> "missing", doc |-> EmptyDict]

ConfFiles == {None, Str("")} \cup UserPaths

(***************************************************************************)
(* Configuration Source Resolver.                                          *)
(***************************************************************************)
\* _get_full_conf_path()
GetFullConfPath == DefaultConfPath

\* _add_missing_keys opening and reading the file once to load it and once
\* more to merge it
AddMissingKeysReadingTwice(configuration, path) ==
    LET file == FileSystem(path)
        read == [op |-> "read", path |-> path]
    IN
    CASE file.kind = "missing" ->
            [exc |-> "IOError", value |-> configuration,
             io |-> <<[op |-> "open_failed", path |-> path]>>]
      [] file.kind = "malformed" ->
            [exc |-> "YAMLError", value |-> configuration, io |-> <<read>>]
      [] file.kind = "scalar" ->
            [exc |-> "AttributeError", value |-> configuration,
             io |-> <<read>>]
      [] OTHER ->
            [exc |-> "none", value |-> configuration @@ file.doc,
             io |-> <<read, read>>]

\* _add_missing_keys: exc is the exception that leaves the method ("none"
\* when it returns), value the dict returned, io the file operations done:
\* an open that fails, or an open followed by the read of the whole file.
AddMissingKeys(configuration, path) ==
    LET file == FileSystem(path) IN
    CASE file.kind = "missing" ->
            [exc |-> "IOError", value |-> configuration,
             io |-> <<[op |-> "open_failed", path |-> path]>>]
      [] file.kind = "malformed" ->
            [exc |-> "YAMLError", value |-> configuration,
             io |-> <<[op |-> "read", path |-> path]>>]
      [] file.kind = "scalar" ->
            [exc |-> "AttributeError", value |-> configuration,
             io |-> <<[op |-> "read", path |-> path]>>]
      [] OTHER ->
            [exc |-> "none", value |-> configuration @@ file.doc,
             io |-> <<[op |-> "read", path |-> path]>>]

\* LoadOrFallBack with the two except branches only logging the warning
LoadWithoutFallBack(configuration, cf) ==
    LET fromFile == AddMissingKeys(configuration, cf) IN
    [fromFile EXCEPT !.exc = "none"]

\* the try statement of _get_configuration: the file at cf is loaded, and
\* when that raises (IOError, or any other Exception) the default document
\* is loaded instead
LoadOrFallBack(configuration, cf) ==
    LET fromFile == AddMissingKeys(configuration, cf)
        fromDefault == AddMissingKeys(configuration, GetFullConfPath)
    IN
    IF fromFile.exc = "none"
    THEN fromFile
    ELSE [fromDefault EXCEPT !.io = fromFile.io \o fromDefault.io]

\* _get_configuration: exc is "ValueError" or what the load of the default
\* document lets through
GetConfiguration(cf, rc) ==
    IF Truthy(cf) /\ Truthy(rc)
    THEN [exc |-> "ValueError", value |-> EmptyDict, io |-> <<>>]
    ELSE
        LET configuration == IF Truthy(rc) THEN rc ELSE EmptyDict IN
        IF ~Truthy(cf)
        THEN AddMissingKeys(configuration, GetFullConfPath)
        ELSE LoadOrFallBack(configuration, cf)

(***************************************************************************)
(* Entry accessors.                                                        *)
(***************************************************************************)
\* Bare names that contain the text "enabled": for a str, the test
\* "enabled" not in recognizer is a substring test.  No modelled name
\* contains it.
NamesContainingEnabled == {}

\* _is_recognizer_enabled
IsRecognizerEnabled(recognizer) ==
    IF IsStr(recognizer)
    THEN recognizer.str \notin NamesContainingEnabled
    ELSE "enabled" \notin DOMAIN recognizer \/ recognizer["enabled"]

\* _get_recognizer_name
GetRecognizerName(recognizer) ==
    IF IsStr(recognizer) THEN recognizer.str ELSE recognizer["name"]

\* _get_recognizer_context
GetRecognizerContext(recognizer) ==
    IF IsStr(recognizer) THEN None ELSE Get(recognizer, "context", None)

\* _get_recognizer_items
GetRecognizerItems(recognizer) ==
    IF IsStr(recognizer) THEN EmptyDict ELSE recognizer

(***************************************************************************)
(* Language Scope Expander.                                                *)
(***************************************************************************)
\* RegistryWideScopes iterating over the class default languages instead of
\* self.supported_languages
DefaultLanguageScopes(recognizer, self_langs) ==
    [i \in 1..Len(default_values["supported_languages"].list) |->
        [supported_language |-> default_values["supported_languages"].list[i],
         context |-> GetRecognizerContext(recognizer)]]

\* the first comprehension of _get_recognizer_languages: one scope per
\* language of self.supported_languages
RegistryWideScopes(recognizer, self_langs) ==
    [i \in 1..Len(self_langs.list) |->
        [supported_language |-> self_langs.list[i],
         context |-> GetRecognizerContext(recognizer)]]

\* PlainScopes carrying the entry's own context
PlainScopesWithContext(recognizer, langs) ==
    [i \in 1..Len(langs) |->
        [supported_language |-> langs[i],
         context |-> GetRecognizerContext(recognizer)]]

\* the second comprehension: one scope per element, without context
PlainScopes(recognizer, langs) ==
    [i \in 1..Len(langs) |->
        [supported_language |-> langs[i], context |-> None]]

\* the third comprehension: one scope per mapping
MappingScopes(recognizer, langs) ==
    [i \in 1..Len(langs) |->
        [supported_language |-> langs[i]["language"],
         context |-> langs[i]["context"]]]

\* _get_recognizer_languages, with self.supported_languages as self_langs.
\* exc is the exception raised ("none" when the method returns), scopes the
\* list returned.  Iterating over None, taking element 0 of an empty list
\* and subscripting a str with "language" raise.
GetRecognizerLanguages(recognizer, self_langs) ==
    IF IsStr(recognizer) \/ "supported_languages" \notin DOMAIN recognizer
    THEN
        IF self_langs = None
        THEN [exc |-> "TypeError", scopes |-> <<>>]
        ELSE [exc |-> "none",
              scopes |-> RegistryWideScopes(recognizer, self_langs)]
    ELSE
        LET langs == recognizer["supported_languages"].list IN
        IF Len(langs) = 0
        THEN [exc |-> "IndexError", scopes |-> <<>>]
        ELSE IF IsStr(langs[1])
        THEN [exc |-> "none", scopes |-> PlainScopes(recognizer, langs)]
        ELSE IF \E i \in 1..Len(langs) : IsStr(langs[i])
        THEN [exc |-> "TypeError", scopes |-> <<>>]
        ELSE [exc |-> "none", scopes |-> MappingScopes(recognizer, langs)]

(***************************************************************************)
(* Recognizer Classifier.  Entries are paired with their position in the   *)
(* configuration's recognizers list, so that every instance can be traced  *)
(* to the entry it was made from.                                          *)
(***************************************************************************)
Enumerate(recognizers) ==
    [i \in 1..Len(recognizers) |-> [pos |-> i, conf |-> recognizers[i]]]

IsPredefined(recognizer) ==
    IsStr(recognizer) \/
    ("type" \in DOMAIN recognizer /\ recognizer["type"] = "predefined")

IsCustom(recognizer) ==
    ~IsStr(recognizer) /\
    ("type" \notin DOMAIN recognizer \/ recognizer["type"] = "custom")

SelectPredefined(r) == IsPredefined(r.conf)

SelectCustom(r) == IsCustom(r.conf)

\* _split_recognizers
SplitRecognizers(recognizers) ==
    [predefined |-> SelectSeq(recognizers, SelectPredefined),
     custom |-> SelectSeq(recognizers, SelectCustom)]

(***************************************************************************)
(* Recognizer Factory.  A detector instance records its class, the keyword *)
(* arguments it was constructed with and the flags set on it afterwards;   *)
(* entry and scope say which entry and which of its scopes it came from    *)
(* (scope 0: made without language expansion).                             *)
(***************************************************************************)
\* the names presidio_analyzer.predefined_recognizers resolves
PredefinedRecognizers == {"CreditCardRecognizer", "SpacyRecognizer"}

\* the classes for which isinstance(recognizer, PatternRecognizer) holds
PatternRecognizers == {"PatternRecognizer", "CreditCardRecognizer"}

NewInstance(cls, kwargs, pos, scope) ==
    [cls |-> cls, kwargs |-> kwargs, global_regex_flags |-> <<>>,
     entry |-> pos, scope |-> scope]

\* the body of the loop over predefined (one entry, all of its scopes)
PredefinedInstances(r, self_langs) ==
    LET languages == GetRecognizerLanguages(r.conf, self_langs)
        copied_recognizer ==
            Without(GetRecognizerItems(r.conf),
                    {"enabled", "type", "supported_languages", "name"})
        cls == GetRecognizerName(r.conf)
    IN
    IF languages.exc # "none"
    THEN [exc |-> languages.exc, instances |-> <<>>]
    ELSE IF languages.scopes = <<>> \/ ~IsRecognizerEnabled(r.conf)
    THEN [exc |-> "none", instances |-> <<>>]
    ELSE IF cls \notin PredefinedRecognizers
    THEN [exc |-> "TypeError", instances |-> <<>>]
    ELSE [exc |-> "none",
          instances |-> [k \in 1..Len(languages.scopes) |->
                            NewInstance(cls,
                                        languages.scopes[k] @@ copied_recognizer,
                                        r.pos, k)]]

\* _create_custom_recognizers without the branch for legacy recognizers
CreateCustomRecognizersExpanding(r, self_langs) ==
    LET languages == GetRecognizerLanguages(r.conf, self_langs)
        copied_recognizer ==
            Without(r.conf, {"enabled", "type", "supported_languages"})
    IN
    IF languages.exc # "none"
    THEN [exc |-> languages.exc, instances |-> <<>>]
    ELSE [exc |-> "none",
          instances |-> [k \in 1..Len(languages.scopes) |->
                            NewInstance("PatternRecognizer",
                                        languages.scopes[k] @@ copied_recognizer,
                                        r.pos, k)]]

\* _create_custom_recognizers
CreateCustomRecognizers(r, self_langs) ==
    IF "supported_language" \in DOMAIN r.conf
    THEN [exc |-> "none",
          instances |-> <<NewInstance("PatternRecognizer", r.conf, r.pos, 0)>>]
    ELSE
        LET languages == GetRecognizerLanguages(r.conf, self_langs)
            copied_recognizer ==
                Without(r.conf, {"enabled", "type", "supported_languages"})
        IN
        IF languages.exc # "none"
        THEN [exc |-> languages.exc, instances |-> <<>>]
        ELSE [exc |-> "none",
              instances |-> [k \in 1..Len(languages.scopes) |->
                                NewInstance("PatternRecognizer",
                                            languages.scopes[k] @@ copied_recognizer,
                                            r.pos, k)]]

\* the body of the loop over custom (one entry)
CustomInstances(r, self_langs) ==
    IF IsRecognizerEnabled(r.conf)
    THEN CreateCustomRecognizers(r, self_langs)
    ELSE [exc |-> "none", instances |-> <<>>]

\* The two loops of create_recognizer_registry over todo, the predefined
\* entries followed by the custom ones, appending to acc; the first
\* exception ends them.  failed is the position of the entry that raised.
RECURSIVE RunLoops(_, _, _)
RunLoops(todo, self_langs, acc) ==
    IF todo = <<>>
    THEN [exc |-> "none", failed |-> 0, instances |-> acc]
    ELSE
        LET r == Head(todo)
            made == IF IsPredefined(r.conf)
                    THEN PredefinedInstances(r, self_langs)
                    ELSE CustomInstances(r, self_langs)
        IN
        IF made.exc # "none"
        THEN [exc |-> made.exc, failed |-> r.pos, instances |-> acc]
        ELSE RunLoops(Tail(todo), self_langs, acc \o made.instances)

\* the loop that sets global_regex_flags on the pattern recognizers
SetFlags(instances, flags) ==
    [k \in 1..Len(instances) |->
        IF instances[k].cls \in PatternRecognizers
        THEN [instances[k] EXCEPT !.global_regex_flags = <<flags>>]
        ELSE instances[k]]

\* LoopOrder with the loop over custom first
CustomFirst(split) == split.custom \o split.predefined

\* the order in which create_recognizer_registry runs its two loops
LoopOrder(split) == split.predefined \o split.custom

(***************************************************************************)
(* Registry Assembler.                                                     *)
(***************************************************************************)
\* create_recognizer_registry on self.configuration = conf.  exc is the
\* exception raised ("none" when a registry is returned), failed the
\* position of the entry that raised, self_langs the value assigned to
\* self.supported_languages, instances the list recognizer_instances when
\* the method is left, registry the value returned (None when it raised).
CreateRegistry(conf) ==
    LET fields == [f \in Fields |-> Get(conf, f, default_values[f])]
        self_langs == fields["supported_languages"]
        split == SplitRecognizers(Enumerate(fields["recognizers"].list))
        run == RunLoops(LoopOrder(split), self_langs, <<>>)
        recognizer_instances ==
            IF run.exc = "none"
            THEN SetFlags(run.instances, fields["global_regex_flags"])
            ELSE run.instances
    IN
    [exc |-> run.exc,
     failed |-> run.failed,
     self_langs |-> self_langs,
     instances |-> recognizer_instances,
     registry |->
        IF run.exc = "none"
        THEN [supported_languages |-> self_langs,
              recognizers |-> recognizer_instances,
              global_regex_flags |-> fields["global_regex_flags"]]
        ELSE None]

(***************************************************************************)
(* Inputs of a direct call of _get_recognizer_languages.                   *)
(***************************************************************************)
ScopeElements ==
    {Str("en"), Str("de"),
     [language |-> Str("en"), context |-> None],
     [language |-> Str("de"), context |-> List(<<"plz">>)]}

ScopeLists == UNION {[1..n -> ScopeElements] : n \in 0..MaxScopes}

ScopeEntries ==
    {Str("CreditCardRecognizer")} \cup
    { base @@ sl :
        base \in {[name |-> "Zip"],
                  [name |-> "Zip", context |-> ZipContext],
                  [name |-> "Zip", context |-> ZipContext,
                   supported_language |-> Str("he")]},
        sl \in {EmptyDict} \cup
               {[supported_languages |-> List(l)] : l \in ScopeLists} }

(***************************************************************************)
(* State of one provider and of its environment.                           *)
(***************************************************************************)
VARIABLES
    pc,                     \* "new", "ready", "raised" (constructor raised)
    conf_file,              \* the constructor's conf_file argument
    registry_configuration, \* the constructor's registry_configuration
    configuration,          \* self.configuration
    supported_languages,    \* self.supported_languages
    io_log,                 \* file operations done so far, in order
    calls,                  \* create_recognizer_registry calls made
    last,                   \* outcome of the last create_recognizer_registry
    recognizer_arg,         \* argument of a direct _get_recognizer_languages
    scopes_result           \* what that call did

vars == <<pc, conf_file, registry_configuration, configuration,
          supported_languages, io_log, calls, last, recognizer_arg,
          scopes_result>>

NotCalled ==
    [exc |-> "none", failed |-> 0, self_langs |-> None,
     instances |-> <<>>, registry |-> None]

NoScopesCall == [called |-> FALSE, exc |-> "none", scopes |-> <<>>]

Init ==
    /\ pc = "new"
    /\ conf_file = None
    /\ registry_configuration = None
    /\ configuration = EmptyDict
    /\ supported_languages = None
    /\ io_log = <<>>
    /\ calls = 0
    /\ last = NotCalled
    /\ recognizer_arg = None
    /\ scopes_result = NoScopesCall

\* RecognizerRegistryProvider(conf_file, registry_configuration)
Construct(cf, rc) ==
    /\ LET r == GetConfiguration(cf, rc) IN
        /\ pc' = IF r.exc = "none" THEN "ready" ELSE "raised"
        /\ configuration' = r.value
        /\ io_log' = io_log \o r.io
    /\ conf_file' = cf
    /\ registry_configuration' = rc
    /\ UNCHANGED <<supported_languages, calls, last, recognizer_arg,
                   scopes_result>>

\* provider.create_recognizer_registry()
CreateRecognizerRegistry ==
    /\ pc = "ready"
    /\ calls < MaxCalls
    /\ last' = CreateRegistry(configuration)
    /\ supported_languages' = last'.self_langs
    /\ calls' = calls + 1
    /\ UNCHANGED <<pc, conf_file, registry_configuration, configuration,
                   io_log, recognizer_arg, scopes_result>>

\* a caller constructs the provider, with any arguments
NewProvider ==
    /\ pc = "new"
    /\ \E cf \in ConfFiles, rc \in {None} \cup InlineConfigurations :
        Construct(cf, rc)

Next ==
    \/ NewProvider
    \/ CreateRecognizerRegistry

Spec == Init /\ [][Next]_vars

(***************************************************************************)
(* _get_recognizer_languages on its own: a provider whose                  *)
(* supported_languages attribute is unset or holds a language list, and    *)
(* one entry.                                                              *)
(***************************************************************************)
InitScopes ==
    /\ pc = "ready"
    /\ conf_file = None
    /\ registry_configuration = None
    /\ configuration = GetConfiguration(None, None).value
    /\ supported_languages \in {None} \cup {List(l) : l \in LanguageLists}
    /\ io_log = GetConfiguration(None, None).io
    /\ calls = 0
    /\ last = NotCalled
    /\ recognizer_arg \in ScopeEntries
    /\ scopes_result = NoScopesCall

\* provider._get_recognizer_languages(recognizer_arg)
CallGetRecognizerLanguages ==
    /\ ~scopes_result.called
    /\ LET r == GetRecognizerLanguages(recognizer_arg, supported_languages) IN
        scopes_result' = [called |-> TRUE, exc |-> r.exc, scopes |-> r.scopes]
    /\ UNCHANGED <<pc, conf_file, registry_configuration, configuration,
                   supported_languages, io_log, calls, last, recognizer_arg>>

NextScopes == CallGetRecognizerLanguages

SpecScopes == InitScopes /\ [][NextScopes]_vars

(***************************************************************************)
(* Vocabulary of the properties.                                           *)
(***************************************************************************)
Called == calls > 0

Returned == Called /\ last.exc = "none"

\* the entries the last call worked on, and their positions
Entries == Get(configuration, "recognizers", default_values["recognizers"]).list

Positions == 1..Len(Entries)

\* the instances that came from the entry at position i, in registry order
FromEntry(i) == SelectSeq(last.instances, LAMBDA x : x.entry = i)

LanguagesOf(instances) ==
    [k \in 1..Len(instances) |-> instances[k].kwargs["supported_language"]]

ExplicitlyDisabled(e) ==
    ~IsStr(e) /\ "enabled" \in DOMAIN e /\ e["enabled"] = FALSE

Enabled(e) == ~ExplicitlyDisabled(e)

HasLegacyLanguage(e) == ~IsStr(e) /\ "supported_language" \in DOMAIN e

HasNoLanguageField(e) ==
    IsStr(e) \/ ({"supported_language", "supported_languages"}
                    \cap DOMAIN e = {})

Classified(e) == IsPredefined(e) \/ IsCustom(e)

Resolves(e) == IsCustom(e) \/ GetRecognizerName(e) \in PredefinedRecognizers

\* place of the entry at position i in the order the loops visit entries
Rank(i) == IF IsPredefined(Entries[i]) THEN i ELSE Len(Entries) + i

\* the last call got through the entry at position i
Processed(i) ==
    Called /\ (last.exc = "none" \/ Rank(i) < Rank(last.failed))

ReadCount == Len(SelectSeq(io_log, LAMBDA e : e.op = "read"))

Constructed == pc # "new"

FilePathSupplied == conf_file \in UserPaths

InlineSupplied == registry_configuration # None

(***************************************************************************)
(* C1.  Constructing the provider with both an inline configuration and a  *)
(* file path raises ValueError, whatever the two arguments are, and no     *)
(* file has been opened or read.                                           *)
(***************************************************************************)
C1_BothSuppliedRaises ==
    (Constructed /\ FilePathSupplied /\ InlineSupplied)
        => (pc = "raised" /\ io_log = <<>>)

(***************************************************************************)
(* C2.  An enabled predefined entry whose name does not resolve in the     *)
(* built-in library contributes no instance and raises nothing: the call   *)
(* goes on to the other entries and returns the registry.                  *)
(***************************************************************************)
C2_UnresolvableNameSkipped ==
    Called =>
        \A i \in Positions :
            (IsPredefined(Entries[i]) /\ Enabled(Entries[i])
                /\ ~Resolves(Entries[i]))
            => (last.exc = "none" /\ FromEntry(i) = <<>>)

(***************************************************************************)
(* C3, as claimed.  Every enabled entry with the singular                  *)
(* supported_language field, predefined or custom, has exactly one         *)
(* instance in the registry returned, whatever the registry-wide list.     *)
(***************************************************************************)
C3_LegacyEntryOneInstance ==
    Returned =>
        \A i \in Positions :
            (Classified(Entries[i]) /\ Enabled(Entries[i])
                /\ HasLegacyLanguage(Entries[i]))
            => Len(FromEntry(i)) = 1

(***************************************************************************)
(* C3, amended.  In every registry returned, an enabled custom entry with  *)
(* the singular supported_language field has exactly one instance, built   *)
(* from the entry's own fields, whatever the registry-wide list; an        *)
(* enabled predefined entry with supported_language and no                 *)
(* supported_languages has one instance per registry-wide language, in     *)
(* list order.                                                             *)
(***************************************************************************)
C3_CustomLegacyOneInstance ==
    Returned =>
        \A i \in Positions :
            (Enabled(Entries[i]) /\ HasLegacyLanguage(Entries[i])) =>
                /\ IsCustom(Entries[i]) =>
                    /\ Len(FromEntry(i)) = 1
                    /\ FromEntry(i)[1].kwargs = Entries[i]
                /\ (IsPredefined(Entries[i])
                        /\ "supported_languages" \notin DOMAIN Entries[i]) =>
                    LanguagesOf(FromEntry(i)) = supported_languages.list

C3_Witness ==
    /\ Returned
    /\ Len(supported_languages.list) >= 2
    /\ \E i \in Positions :
        /\ IsCustom(Entries[i]) /\ Enabled(Entries[i])
        /\ HasLegacyLanguage(Entries[i])
        /\ Len(FromEntry(i)) = 1
    /\ \E i \in Positions :
        /\ IsPredefined(Entries[i]) /\ HasLegacyLanguage(Entries[i])
        /\ Len(FromEntry(i)) >= 2

(***************************************************************************)
(* C4.  For a configuration supplied inline or by an existing, parseable   *)
(* file, every top-level key resolves to the caller's value when the       *)
(* caller has the key and to the default document's value when not.        *)
(***************************************************************************)
CallerConfiguration ==
    IF InlineSupplied THEN registry_configuration ELSE FileSystem(conf_file).doc

CallerSuppliedOne ==
    \/ InlineSupplied /\ ~Truthy(conf_file)
    \/ ~InlineSupplied /\ FilePathSupplied
         /\ FileSystem(conf_file).kind = "mapping"

\* the value create_recognizer_registry uses for a top-level key
Resolved(f) == Get(configuration, f, default_values[f])

C4_MissingKeysFromDefaultDocument ==
    (pc = "ready" /\ CallerSuppliedOne) =>
        \A f \in Fields :
            Resolved(f) = IF f \in DOMAIN CallerConfiguration
                          THEN CallerConfiguration[f]
                          ELSE DefaultDocument[f]

(***************************************************************************)
(* C5.  An entry with enabled: false, predefined or custom, with whatever  *)
(* language fields, adds no instance and does not keep the registry from   *)
(* being assembled.                                                        *)
(***************************************************************************)
C5_DisabledEntryInert ==
    Called =>
        \A i \in Positions :
            (Classified(Entries[i]) /\ ExplicitlyDisabled(Entries[i]))
            => (FromEntry(i) = <<>> /\ last.failed # i)

(***************************************************************************)
(* C6, as claimed.  Every enabled entry without any language field has, in *)
(* the registry returned, one instance per registry-wide language, in list *)
(* order.                                                                  *)
(***************************************************************************)
C6_NoLanguageFanOut ==
    Returned =>
        \A i \in Positions :
            (Enabled(Entries[i]) /\ HasNoLanguageField(Entries[i]))
            => LanguagesOf(FromEntry(i)) = supported_languages.list

(***************************************************************************)
(* C6, amended.  Every enabled entry without any language field that is    *)
(* classified as predefined or custom, and that the call gets through (as  *)
(* it does whenever a registry is returned), has one instance per          *)
(* registry-wide language, in list order.                                  *)
(***************************************************************************)
C6_ClassifiedNoLanguageFanOut ==
    Called =>
        \A i \in Positions :
            (Classified(Entries[i]) /\ Enabled(Entries[i])
                /\ HasNoLanguageField(Entries[i]) /\ Processed(i))
            => /\ LanguagesOf(FromEntry(i)) = supported_languages.list
               /\ Len(FromEntry(i)) = Len(supported_languages.list)

C6_Witness ==
    /\ Returned
    /\ Len(supported_languages.list) >= 2
    /\ \E i, j \in Positions :
        /\ IsStr(Entries[i]) /\ IsCustom(Entries[j])
        /\ HasNoLanguageField(Entries[j]) /\ Enabled(Entries[j])
        /\ Len(FromEntry(i)) = Len(supported_languages.list)
        /\ Len(FromEntry(j)) = Len(supported_languages.list)

(***************************************************************************)
(* C7.  A provider given a path to no file, and no inline configuration,   *)
(* is constructed without an exception, holds the configuration a provider *)
(* given no path holds, and assembles the registry that provider does.     *)
(***************************************************************************)
NoPathConfiguration == GetConfiguration(None, None).value

C7_MissingFileIsNoFile ==
    (Constructed /\ ~InlineSupplied /\ FilePathSupplied
        /\ FileSystem(conf_file).kind = "missing")
    => /\ pc = "ready"
       /\ configuration = NoPathConfiguration
       /\ Called => last = CreateRegistry(NoPathConfiguration)

C7_Witness ==
    /\ conf_file = Str("missing.yaml")
    /\ registry_configuration = None
    /\ Returned
    /\ last.registry # None
    /\ Len(last.registry.recognizers) >= 2

(***************************************************************************)
(* C8.  In the list of instances every instance of a predefined entry      *)
(* comes before every instance of a custom entry; within each group the    *)
(* instances follow the order of their entries in the recognizers list,    *)
(* and the instances of one entry follow the order of its language scopes. *)
(***************************************************************************)
Group(x) == IF IsPredefined(Entries[x.entry]) THEN 0 ELSE 1

\* the language of scope k of entry e, read off the configuration
ScopeLanguage(e, k) ==
    IF IsStr(e) \/ "supported_languages" \notin DOMAIN e
    THEN supported_languages.list[k]
    ELSE LET el == e["supported_languages"].list[k] IN
         IF IsStr(el) THEN el ELSE el["language"]

C8_PredefinedThenCustomInOrder ==
    Called =>
        /\ \A a, b \in 1..Len(last.instances) :
            a < b =>
                LET x == last.instances[a]
                    y == last.instances[b]
                IN  \/ Group(x) < Group(y)
                    \/ /\ Group(x) = Group(y)
                       /\ \/ x.entry < y.entry
                          \/ x.entry = y.entry /\ x.scope < y.scope
        /\ \A a \in 1..Len(last.instances) :
            LET x == last.instances[a] IN
            x.scope > 0 =>
                x.kwargs["supported_language"]
                    = ScopeLanguage(Entries[x.entry], x.scope)

C8_Witness ==
    /\ Returned
    /\ \E i, j \in Positions :
        /\ i < j
        /\ IsCustom(Entries[i]) /\ IsPredefined(Entries[j])
        /\ Len(FromEntry(i)) >= 2 /\ Len(FromEntry(j)) >= 2

(***************************************************************************)
(* C9, as claimed.  _get_recognizer_languages returns, for every entry and *)
(* registry language list: (1) for a bare name or an entry without         *)
(* supported_languages, one scope per registry-wide language with the      *)
(* entry's context; (2) when the first element of supported_languages is a *)
(* plain code, one scope per element with no context; (3) otherwise one    *)
(* scope per {language, context} mapping, with its language and context.   *)
(***************************************************************************)
ScopesCalled == scopes_result.called /\ supported_languages # None

ArgLanguages == recognizer_arg["supported_languages"].list

Rule1 ==
    IsStr(recognizer_arg) \/ "supported_languages" \notin DOMAIN recognizer_arg

Rule1Scopes ==
    [i \in 1..Len(supported_languages.list) |->
        [supported_language |-> supported_languages.list[i],
         context |-> IF IsStr(recognizer_arg)
                        \/ "context" \notin DOMAIN recognizer_arg
                     THEN None ELSE recognizer_arg["context"]]]

Rule2Scopes ==
    [i \in 1..Len(ArgLanguages) |->
        [supported_language |-> ArgLanguages[i], context |-> None]]

Mappings == SelectSeq(ArgLanguages, LAMBDA el : ~IsStr(el))

Rule3Scopes ==
    [i \in 1..Len(Mappings) |->
        [supported_language |-> Mappings[i]["language"],
         context |-> Mappings[i]["context"]]]

C9_ThreeRules ==
    ScopesCalled =>
        /\ scopes_result.exc = "none"
        /\ scopes_result.scopes =
            IF Rule1 THEN Rule1Scopes
            ELSE IF ArgLanguages # <<>> /\ IsStr(ArgLanguages[1])
            THEN Rule2Scopes
            ELSE Rule3Scopes

(***************************************************************************)
(* C9, amended.  The three rules hold for every entry whose                *)
(* supported_languages list, when present, is not empty and, when it       *)
(* starts with a mapping, holds mappings only.  The first element alone    *)
(* selects the rule: a list that starts with a plain code gives one scope  *)
(* per element whatever the later elements are.  An empty list raises      *)
(* IndexError, and a plain code after a first mapping raises TypeError.    *)
(***************************************************************************)
C9_ThreeRulesNonEmpty ==
    ScopesCalled =>
        IF Rule1
        THEN scopes_result.exc = "none" /\ scopes_result.scopes = Rule1Scopes
        ELSE IF ArgLanguages = <<>>
        THEN scopes_result.exc = "IndexError"
        ELSE IF IsStr(ArgLanguages[1])
        THEN scopes_result.exc = "none" /\ scopes_result.scopes = Rule2Scopes
        ELSE IF Mappings = ArgLanguages
        THEN scopes_result.exc = "none" /\ scopes_result.scopes = Rule3Scopes
        ELSE scopes_result.exc = "TypeError"

C9_Witness ==
    /\ ScopesCalled
    /\ ~Rule1
    /\ Len(ArgLanguages) = 2
    /\ IsStr(ArgLanguages[1]) /\ ~IsStr(ArgLanguages[2])
    /\ "context" \in DOMAIN recognizer_arg
    /\ Len(scopes_result.scopes) = 2
    /\ scopes_result.scopes[2]["context"] = None

(***************************************************************************)
(* C10, as claimed.  Over the life of a provider a configuration file is   *)
(* read at most once, whatever the constructor's arguments.                *)
(***************************************************************************)
C10_ReadAtMostOnce == ReadCount <= 1

(***************************************************************************)
(* C10, amended.  Over the life of a provider (construction and any number *)
(* of create_recognizer_registry calls) no file is read when the           *)
(* constructor raises, two files are read when the path leads to a file    *)
(* that fails to load (that file, then the default document), and exactly  *)
(* one file is read otherwise; create_recognizer_registry reads none.      *)
(***************************************************************************)
FailsToLoad(path) == FileSystem(path).kind \in {"malformed", "scalar"}

C10_ReadOnceOrFallBack ==
    Constructed =>
        IF pc = "raised" THEN io_log = <<>>
        ELSE IF Truthy(conf_file) /\ FailsToLoad(conf_file)
        THEN io_log = <<[op |-> "read", path |-> conf_file],
                        [op |-> "read", path |-> GetFullConfPath]>>
        ELSE ReadCount = 1

C10_Witness ==
    /\ calls = MaxCalls
    /\ conf_file = Str("broken.yaml")
    /\ ReadCount = 2
====
